---- MODULE Spec2Model ----
(***************************************************************************)
(* Model of the azuredevops_git_repository_file resource                   *)
(* (azuredevops/internal/service/git/resource_git_repository_file.go).     *)
(*                                                                         *)
(* Strings the code parses or concatenates (identifiers, paths, branch     *)
(* references, commit messages) are sequences of one-character strings.    *)
(* File contents are never inspected by the code and are plain strings.    *)
(* Every remote call of a handler is one atomic step, so that other        *)
(* writers of the same repository interleave between the calls.            *)
(***************************************************************************)
EXTENDS Integers, Sequences, FiniteSets, TLC

\* ------------------------------------------------------------------ bounds
\* lifecycle operations the engine starts per resource instance
MaxOps == 2
\* pushes made by other clients of the repository
MaxForeign == 1
\* remote calls that fail with a transport/service error, or accepted pushes
\* answered with a push id that is not positive
MaxFaults == 1
\* Refresh attempts that fit into the 600 s timeout of waitForFilePush
MaxAttempts == 2

\* ------------------------------------------------------- string helpers
RECURSIVE SplitFrom(_, _, _)
\* the pieces of s after a piece `cur` has been started
SplitFrom(s, sep, cur) ==
  IF s = <<>> THEN <<cur>>
  ELSE IF Head(s) = sep THEN <<cur>> \o SplitFrom(Tail(s), sep, <<>>)
  ELSE SplitFrom(Tail(s), sep, Append(cur, Head(s)))

\* strings.Split with a one-character separator: always at least one piece
Split(s, sep) == SplitFrom(s, sep, <<>>)

RECURSIVE Join(_, _)
\* strings.Join
Join(parts, sep) ==
  IF parts = <<>> THEN <<>>
  ELSE IF Len(parts) = 1 THEN parts[1]
  ELSE parts[1] \o <<sep>> \o Join(Tail(parts), sep)

HasPrefix(s, p) == Len(s) >= Len(p) /\ SubSeq(s, 1, Len(p)) = p

\* strings.TrimPrefix
TrimPrefix(s, p) == IF HasPrefix(s, p) THEN SubSeq(s, Len(p) + 1, Len(s)) ELSE s

RefsHeads == <<"r","e","f","s","/","h","e","a","d","s","/">>

\* the names of the branches of the modelled repository
Master == <<"m","a","s","t","e","r">>
Dev == <<"d","e","v">>
Gone == <<"g","o","n","e">>
Foobar == <<"f","o","o","b","a","r">>

\* the schema default of "branch" and the importer's default
DefaultBranchRef == RefsHeads \o Master

\* splitRepoFilePath: <<repository, file>>, split at the first "/"
splitRepoFilePath(path) ==
  LET parts == Split(path, "/") IN <<parts[1], Join(Tail(parts), "/")>>

MakeIdOfFileOnly(repo, file) == file

\* fmt.Sprintf("%s/%s", repo, file)
MakeId(repo, file) == repo \o <<"/">> \o file

\* --------------------------------------------------------------- errors
\* an error value: what failed, the name it mentions, and the repository
\* named by the wrapping of waitForFilePush (empty when not wrapped)
Err(kind, msg) == [kind |-> kind, msg |-> msg, repo |-> <<>>]
NoErr == Err("nil", <<>>)

WrapErrDropsRepository(repo, e) == e

\* fmt.Errorf("Error retrieving expected branch for repository [%s]: %+v", repo, err)
WrapErr(repo, e) == [e EXCEPT !.repo = repo]

\* err contains the failure e (as returned, or wrapped with context)
Contains(err, e) == err.kind = e.kind /\ err.msg = e.msg

ResponseWasNotFoundNever(e) == FALSE

\* utils.ResponseWasNotFound
ResponseWasNotFound(e) == e.kind = "NotFound"

\* utils.ResponseContainsStatusMessage(err, "has already been updated by another client")
ResponseIsStale(e) == e.kind = "Conflict"

\* ------------------------------------------------------- modelled inputs
Repo == <<"r">>
PathF == <<"f">>
PathBC == <<"b","/","c">>
Paths == {PathF, PathBC}
ExistingBranches == {Master, Dev}
DefaultBranch == Master
DeclaredBranches == {RefsHeads \o Master, RefsHeads \o Dev, RefsHeads \o Gone, Foobar}
DeclaredFiles == {PathF}
DeclaredContents == {"bar"}
UpdatedContents == {"baz"}
ForeignContent == "zzz"
ForeignComment == <<"x">>
InitialComment == <<"i","n","i","t">>
DeclaredComments == {<<>>, <<"m">>}
ImportIds ==
  { MakeId(Repo, PathF),
    MakeId(Repo, PathBC),
    MakeId(Repo, PathF) \o <<":">> \o RefsHeads \o Dev,
    MakeId(Repo, PathF) \o <<":">> \o Dev \o <<":">> \o Dev,
    Repo }
\* resource instances of the configuration; Init lets the first one run
Inst == {1, 2}

\* git.VersionControlChangeTypeValues
TypeAdd == <<"a","d","d">>
TypeEdit == <<"e","d","i","t">>
TypeDelete == <<"d","e","l","e","t","e">>

\* ---------------------------------------------------------------- state
VARIABLES
  files,        \* remote: branch -> path -> the file at the branch's tip
  tip,          \* remote: branch -> id of the branch's last commit
  commits,      \* remote: commit id -> comment of that commit
  faults,       \* remote failures injected so far
  foreign,      \* pushes made by other clients so far
  d,            \* instance -> schema.ResourceData of the resource
  declared,     \* instance -> the configuration of the resource (id: the
                \*             identifier it was imported with)
  op,           \* instance -> lifecycle operation being run
  pc,           \* instance -> position inside that operation
  result,       \* instance -> error returned by the operation (NoErr: nil)
  changeType,   \* instance -> change kind handed to waitForFilePush
  objectID,     \* instance -> commit id fetched by getLastCommitId
  commitId,     \* instance -> item.CommitId fetched by Read
  attempts,     \* instance -> Refresh calls that ended in "Waiting"
  state,        \* instance -> state reported by the last Refresh
  pushLog,      \* instance -> the CreatePush calls of the operation, in order
  calls,        \* instance -> the remote calls of the operation, in order
  nops,         \* instance -> operations started so far
  tainted,      \* instance -> the engine holds the resource of a failed Create
  probe,        \* instance -> what Create's existence probe saw and what was true
  touched,      \* instance -> another client wrote the managed file since
                \*             the current operation started
  createDefault \* instance -> the generated message Create committed with

remoteVars == <<files, tip, commits>>
vars == <<files, tip, commits, faults, foreign, d, declared, op, pc, result,
          changeType, objectID, commitId, attempts, state, pushLog, calls,
          nops, tainted, probe, touched, createDefault>>

NoFile == [exists |-> FALSE, content |-> "", commit |-> 0]
NoData == [id |-> <<>>, repository_id |-> <<>>, file |-> <<>>, branch |-> <<>>,
           content |-> "", comment |-> <<>>, overwrite_on_create |-> FALSE]
NoConfig == [id |-> <<>>, repository_id |-> <<>>, file |-> <<>>, branch |-> <<>>,
             content |-> "", comment |-> <<>>]
NoProbe == [done |-> FALSE, found |-> FALSE, onBranch |-> FALSE]

\* ------------------------------------------------------- remote service
\* whether the next remote call may fail
Faulty == IF faults < MaxFaults THEN {FALSE, TRUE} ELSE {FALSE}

TransportErr == Err("Transport", <<>>)

\* GitReposClient.GetBranch: the error of a missing branch says
\* Branch "<name>" does not exist
GetBranch(repo, name, fault) ==
  IF fault THEN TransportErr
  ELSE IF repo = Repo /\ name \in ExistingBranches THEN NoErr
  ELSE Err("BranchNotExist", name)

\* GitReposClient.GetItem; version <<>> is "no version descriptor", which the
\* service resolves to the repository's default branch
GetItem(repo, path, version, fault) ==
  LET b == IF version = <<>> THEN DefaultBranch ELSE version IN
  IF fault THEN [err |-> TransportErr, item |-> NoFile]
  ELSE IF repo = Repo /\ b \in ExistingBranches /\ path \in Paths /\ files[b][path].exists
       THEN [err |-> NoErr, item |-> files[b][path]]
  ELSE [err |-> Err("NotFound", path), item |-> NoFile]

\* GitReposClient.GetCommits with Top 1 on a branch: the branch's last commit
GetCommits(repo, branch, fault) ==
  IF fault THEN [err |-> TransportErr, id |-> 0]
  ELSE IF repo = Repo /\ branch \in ExistingBranches THEN [err |-> NoErr, id |-> tip[branch]]
  ELSE [err |-> Err("NotFound", branch), id |-> 0]

\* GitReposClient.GetCommit
GetCommit(repo, id, fault) ==
  IF fault THEN [err |-> TransportErr, comment |-> <<>>]
  ELSE IF repo = Repo /\ id \in 1..Len(commits) THEN [err |-> NoErr, comment |-> commits[id]]
  ELSE [err |-> Err("NotFound", <<>>), comment |-> <<>>]

\* one change of a push can be applied to the tree: add needs the path to be
\* free, edit and delete need the file
ChangeApplies(tree, c) ==
  /\ c.path \in Paths
  /\ IF c.changeType = TypeAdd THEN ~tree[c.path].exists /\ c.hasContent
     ELSE IF c.changeType = TypeEdit THEN tree[c.path].exists /\ c.hasContent
     ELSE c.changeType = TypeDelete /\ tree[c.path].exists

ApplyChange(tree, c, id) ==
  [tree EXCEPT ![c.path] =
     IF c.changeType = TypeDelete THEN NoFile
     ELSE [exists |-> TRUE, content |-> c.content, commit |-> id]]

RECURSIVE ChangesApply(_, _)
ChangesApply(tree, cs) ==
  IF cs = <<>> THEN TRUE
  ELSE ChangeApplies(tree, Head(cs)) /\ ChangesApply(ApplyChange(tree, Head(cs), 0), Tail(cs))

RECURSIVE ApplyChanges(_, _, _)
ApplyChanges(tree, cs, id) ==
  IF cs = <<>> THEN tree ELSE ApplyChanges(ApplyChange(tree, Head(cs), id), Tail(cs), id)

\* GitReposClient.CreatePush: compare-and-swap on the branch tip.
\* misbehave is "no", "error" (the call fails) or "badid" (the push is
\* accepted and answered with a push id that is not positive)
PushOutcome(args, misbehave) ==
  LET b == TrimPrefix(args.name, RefsHeads) IN
  IF misbehave = "error" THEN "error"
  ELSE IF args.repo # Repo \/ ~HasPrefix(args.name, RefsHeads) \/ b \notin ExistingBranches
       THEN "rejected"
  ELSE IF args.oldObjectId # tip[b] THEN "conflict"
  ELSE IF ~ChangesApply(files[b], args.changes) THEN "rejected"
  ELSE IF misbehave = "badid" THEN "invalidId"
  ELSE "accepted"

PushAccepted(outcome) == outcome \in {"accepted", "invalidId"}

\* the error CreatePush returns
PushErr(outcome) ==
  IF outcome = "error" THEN TransportErr
  ELSE IF outcome = "conflict" THEN Err("Conflict", <<>>)
  ELSE IF outcome = "rejected" THEN Err("PushRejected", <<>>)
  ELSE NoErr

\* push.PushId
PushIdOf(outcome) == IF outcome = "accepted" THEN Len(commits) + 1 ELSE 0

Misbehaviours == IF faults < MaxFaults THEN {"no", "error", "badid"} ELSE {"no"}

\* the remote after CreatePush(args) ended with outcome
RemoteAfterPush(args, outcome) ==
  LET b == TrimPrefix(args.name, RefsHeads)
      id == Len(commits) + 1 IN
  IF PushAccepted(outcome)
  THEN /\ commits' = Append(commits, args.comment)
       /\ tip' = [tip EXCEPT ![b] = id]
       /\ files' = [files EXCEPT ![b] = ApplyChanges(files[b], args.changes, id)]
  ELSE UNCHANGED remoteVars

\* ------------------------------------------------------ helper functions
checkRepositoryBranchExistsSwallowed(repo, branch, fault) == NoErr

\* checkRepositoryBranchExists: the error of GetBranch on the bare branch name
checkRepositoryBranchExists(repo, branch, fault) ==
  GetBranch(repo, TrimPrefix(branch, RefsHeads), fault)

\* checkRepositoryFileExists: the error of GetItem at the bare branch name
checkRepositoryFileExists(repo, file, branch, fault) ==
  GetItem(repo, file, TrimPrefix(branch, RefsHeads), fault).err

getLastCommitIdOfFirstCommit(repo, branch, fault) == [err |-> NoErr, id |-> 1]

\* getLastCommitId: [err, id]
getLastCommitId(repo, branch, fault) ==
  GetCommits(repo, TrimPrefix(branch, RefsHeads), fault)

resourceGitRepositoryPushArgsEmptyContent(dd, oid, ct, hasContent, content) ==
  [repo |-> dd.repository_id,
   name |-> dd.branch,
   oldObjectId |-> oid,
   comment |-> dd.comment,
   changes |-> << [changeType |-> ct, path |-> dd.file,
                   hasContent |-> hasContent, content |-> ""] >>]

resourceGitRepositoryPushArgsOnDefaultBranch(dd, oid, ct, hasContent, content) ==
  [repo |-> dd.repository_id,
   name |-> DefaultBranchRef,
   oldObjectId |-> oid,
   comment |-> dd.comment,
   changes |-> << [changeType |-> ct, path |-> dd.file,
                   hasContent |-> hasContent, content |-> content] >>]

\* resourceGitRepositoryPushArgs: one ref update, one commit with one change.
\* comment <<>> is the nil message (GetOk reports an empty comment as unset)
resourceGitRepositoryPushArgs(dd, oid, ct, hasContent, content) ==
  [repo |-> dd.repository_id,
   name |-> dd.branch,
   oldObjectId |-> oid,
   comment |-> dd.comment,
   changes |-> << [changeType |-> ct, path |-> dd.file,
                   hasContent |-> hasContent, content |-> content] >>]

\* fmt.Sprintf("%s %s", changeType, *file)
DefaultComment(ct, file) == ct \o <<" ">> \o file

\* fmt.Sprintf("Add %s", file)
AddComment(file) == <<"A","d","d"," ">> \o file

\* fmt.Sprintf("Update %s", file)
UpdateComment(file) == <<"U","p","d","a","t","e"," ">> \o file

\* the arguments Refresh submits: a nil comment is replaced by the default
RefreshArgs(dd, oid, ct, hasContent, content) ==
  LET args == resourceGitRepositoryPushArgs(dd, oid, ct, hasContent, content) IN
  IF args.comment = <<>>
  THEN [args EXCEPT !.comment = DefaultComment(ct, dd.file)]
  ELSE args

\* the arguments Update submits, once the nil check has passed
UpdateArgs(dd, oid) ==
  LET args == resourceGitRepositoryPushArgs(dd, oid, TypeEdit, TRUE, dd.content) IN
  IF args.comment = AddComment(dd.file)
  THEN [args EXCEPT !.comment = UpdateComment(dd.file)]
  ELSE args

CreateChangeTypeAlwaysEdit(found) == TypeEdit

\* Create: Edit when the probe returned an item, Add otherwise
CreateChangeType(found) == IF found THEN TypeEdit ELSE TypeAdd

ImporterParseKeepsDefaultBranch(id) ==
  LET parts == Split(id, ":")
      rf == splitRepoFilePath(parts[1]) IN
  IF Len(parts) > 2
  THEN [err |-> Err("InvalidID", <<>>), repo |-> <<>>, file |-> <<>>, branch |-> <<>>]
  ELSE [err |-> NoErr, repo |-> rf[1], file |-> rf[2], branch |-> DefaultBranchRef]

\* the importer's parsing of the identifier, before any remote call
ImporterParse(id) ==
  LET parts == Split(id, ":")
      rf == splitRepoFilePath(parts[1]) IN
  IF Len(parts) > 2
  THEN [err |-> Err("InvalidID", <<>>), repo |-> <<>>, file |-> <<>>, branch |-> <<>>]
  ELSE [err |-> NoErr, repo |-> rf[1], file |-> rf[2],
        branch |-> IF Len(parts) = 2 THEN parts[2] ELSE DefaultBranchRef]

\* ---------------------------------------------------------------- steps
Set(f, i, v) == [f EXCEPT ![i] = v]

DoneSwallowsError(i, err) == pc' = Set(pc, i, "done") /\ result' = Set(result, i, NoErr)

\* the operation returns err to the engine
Done(i, err) == pc' = Set(pc, i, "done") /\ result' = Set(result, i, err)

\* the engine starts operation o of instance i at position p
Begin(i, o, p) ==
  /\ pc[i] = "idle"
  /\ nops[i] < MaxOps
  /\ nops' = Set(nops, i, nops[i] + 1)
  /\ op' = Set(op, i, o)
  /\ pc' = Set(pc, i, p)
  /\ result' = Set(result, i, NoErr)
  /\ objectID' = Set(objectID, i, 0)
  /\ commitId' = Set(commitId, i, 0)
  /\ attempts' = Set(attempts, i, 0)
  /\ state' = Set(state, i, "none")
  /\ pushLog' = Set(pushLog, i, <<>>)
  /\ calls' = Set(calls, i, <<>>)
  /\ probe' = Set(probe, i, NoProbe)
  /\ touched' = Set(touched, i, FALSE)
  /\ UNCHANGED <<remoteVars, faults, foreign, tainted>>

Called(i, name) == calls' = Set(calls, i, Append(calls[i], name))

Spend(fault) == faults' = IF fault THEN faults + 1 ELSE faults

\* the file instance i manages exists on the branch it declares
OnDeclaredBranch(i) ==
  LET b == TrimPrefix(d[i].branch, RefsHeads) IN
  b \in ExistingBranches /\ d[i].file \in Paths /\ files[b][d[i].file].exists

\* ------------------------------------------------------------- Create
StartCreate(i, file, branch, content, comment, overwrite) ==
  /\ d[i].id = <<>>
  /\ Begin(i, "Create", "c_branch")
  /\ d' = Set(d, i, [id |-> <<>>, repository_id |-> Repo, file |-> file,
                     branch |-> branch, content |-> content, comment |-> comment,
                     overwrite_on_create |-> overwrite])
  /\ declared' = Set(declared, i, [id |-> <<>>, repository_id |-> Repo, file |-> file,
                                   branch |-> branch, content |-> content,
                                   comment |-> comment])
  /\ changeType' = Set(changeType, i, TypeAdd)
  /\ createDefault' = Set(createDefault, i, <<>>)

\* lines 146-148
CreateCheckBranch(i) ==
  /\ pc[i] = "c_branch"
  /\ \E fault \in Faulty :
       LET err == checkRepositoryBranchExists(d[i].repository_id, d[i].branch, fault) IN
       /\ Spend(fault)
       /\ Called(i, "GetBranch")
       /\ IF err # NoErr THEN Done(i, err)
          ELSE pc' = Set(pc, i, "c_probe") /\ UNCHANGED result
  /\ UNCHANGED <<remoteVars, foreign, d, declared, op, changeType, objectID, commitId,
                 attempts, state, pushLog, nops, tainted, probe, touched, createDefault>>

\* lines 150-165: the probe carries no version descriptor
CreateProbe(i) ==
  /\ pc[i] = "c_probe"
  /\ \E fault \in Faulty :
       LET r == GetItem(d[i].repository_id, d[i].file, <<>>, fault)
           found == r.err = NoErr IN
       /\ Spend(fault)
       /\ Called(i, "GetItem")
       /\ probe' = Set(probe, i, [done |-> TRUE, found |-> found,
                                  onBranch |-> OnDeclaredBranch(i)])
       /\ IF r.err # NoErr /\ ~ResponseWasNotFound(r.err)
          THEN Done(i, r.err) /\ UNCHANGED changeType
          ELSE IF found /\ ~d[i].overwrite_on_create
          THEN Done(i, Err("Refusing", <<>>)) /\ UNCHANGED changeType
          ELSE /\ changeType' = Set(changeType, i, CreateChangeType(found))
               /\ pc' = Set(pc, i, "w_tip")
               /\ UNCHANGED result
  /\ UNCHANGED <<remoteVars, foreign, d, declared, op, objectID, commitId,
                 attempts, state, pushLog, nops, tainted, touched, createDefault>>

\* ------------------------------------------------- waitForFilePush
RefreshNeverRetries(err, pushId) ==
  [state |-> IF err = NoErr /\ pushId > 0 THEN "Synched" ELSE "Waiting", err |-> err]

RefreshTakesConflictForSuccess(err, pushId) ==
  IF err # NoErr
  THEN IF ResponseIsStale(err) THEN [state |-> "Synched", err |-> NoErr]
       ELSE [state |-> "Waiting", err |-> err]
  ELSE IF pushId > 0 THEN [state |-> "Synched", err |-> NoErr]
  ELSE [state |-> "Waiting", err |-> NoErr]

RefreshRetriesEverything(err, pushId) ==
  [state |-> IF err = NoErr /\ pushId > 0 THEN "Synched" ELSE "Waiting", err |-> NoErr]

\* lines 310-323: what Refresh returns for the answer of CreatePush
Refresh(err, pushId) ==
  IF err # NoErr
  THEN IF ResponseIsStale(err) THEN [state |-> "Waiting", err |-> NoErr]
       ELSE [state |-> "Waiting", err |-> err]
  ELSE IF pushId > 0 THEN [state |-> "Synched", err |-> NoErr]
  ELSE [state |-> "Waiting", err |-> NoErr]

\* the tip is fetched once, before the first attempt
WaitTipOnlyOnce(i) ==
  /\ pc[i] = "w_tip"
  /\ LET r == IF objectID[i] # 0 THEN [err |-> NoErr, id |-> objectID[i]]
              ELSE getLastCommitId(d[i].repository_id, d[i].branch, FALSE) IN
     /\ Called(i, "GetCommits")
     /\ objectID' = Set(objectID, i, r.id)
     /\ pc' = Set(pc, i, "w_push")
  /\ UNCHANGED <<remoteVars, faults, foreign, d, declared, op, changeType, commitId, result,
                 state, attempts, pushLog, nops, tainted, probe, touched, createDefault>>

\* lines 295-298: the tip fetch of one Refresh
WaitTip(i) ==
  /\ pc[i] = "w_tip"
  /\ \E fault \in Faulty :
       LET r == getLastCommitId(d[i].repository_id, d[i].branch, fault) IN
       /\ Spend(fault)
       /\ Called(i, "GetCommits")
       /\ IF r.err # NoErr
          THEN /\ Done(i, WrapErr(d[i].repository_id, r.err))
               /\ state' = Set(state, i, "Waiting")
               /\ UNCHANGED objectID
          ELSE /\ objectID' = Set(objectID, i, r.id)
               /\ pc' = Set(pc, i, "w_push")
               /\ UNCHANGED <<result, state>>
  /\ UNCHANGED <<remoteVars, foreign, d, declared, op, changeType, commitId,
                 attempts, pushLog, nops, tainted, probe, touched, createDefault>>

\* lines 300-333: the push of one Refresh, and what WaitForState and the
\* caller of waitForFilePush do with its answer
WaitPush(i) ==
  /\ pc[i] = "w_push"
  /\ \E m \in Misbehaviours :
       LET args == RefreshArgs(d[i], objectID[i], changeType[i],
                               op[i] = "Create", d[i].content)
           outcome == PushOutcome(args, m)
           pushId == PushIdOf(outcome)
           r == Refresh(PushErr(outcome), pushId) IN
       /\ faults' = IF outcome \in {"error", "invalidId"} THEN faults + 1 ELSE faults
       /\ Called(i, "CreatePush")
       /\ pushLog' = Set(pushLog, i, Append(pushLog[i],
                         [args |-> args, outcome |-> outcome, pushId |-> pushId]))
       /\ RemoteAfterPush(args, outcome)
       /\ createDefault' =
            IF op[i] = "Create" /\ r.state = "Synched" /\ declared[i].comment = <<>>
            THEN Set(createDefault, i, args.comment)
            ELSE createDefault
       /\ state' = Set(state, i, r.state)
       /\ IF r.err # NoErr
          THEN /\ Done(i, WrapErr(d[i].repository_id, r.err))
               /\ UNCHANGED <<d, attempts>>
          ELSE IF r.state = "Synched"
          THEN /\ UNCHANGED attempts
               /\ IF op[i] = "Create"
                  THEN /\ d' = Set(d, i, [d[i] EXCEPT
                                  !.id = MakeId(d[i].repository_id, d[i].file)])
                       /\ pc' = Set(pc, i, "r_branch")
                       /\ UNCHANGED result
                  ELSE Done(i, NoErr) /\ UNCHANGED d
          ELSE /\ attempts' = Set(attempts, i, attempts[i] + 1)
               /\ UNCHANGED d
               /\ IF attempts[i] + 1 >= MaxAttempts
                  THEN Done(i, WrapErr(d[i].repository_id, Err("Timeout", <<>>)))
                  ELSE pc' = Set(pc, i, "w_tip") /\ UNCHANGED result
  /\ UNCHANGED <<foreign, declared, op, changeType, objectID, commitId, nops, tainted,
                 probe, touched>>

\* --------------------------------------------------------------- Read
StartRead(i) ==
  /\ d[i].id # <<>>
  /\ Begin(i, "Read", "r_branch")
  /\ UNCHANGED <<d, declared, changeType, createDefault>>

\* lines 186-191
ReadCheckBranch(i) ==
  /\ pc[i] = "r_branch"
  /\ \E fault \in Faulty :
       LET repo == splitRepoFilePath(d[i].id)[1]
           err == checkRepositoryBranchExists(repo, d[i].branch, fault) IN
       /\ Spend(fault)
       /\ Called(i, "GetBranch")
       /\ IF err # NoErr THEN Done(i, err)
          ELSE pc' = Set(pc, i, "r_item") /\ UNCHANGED result
  /\ UNCHANGED <<remoteVars, foreign, d, declared, op, changeType, objectID, commitId,
                 attempts, state, pushLog, nops, tainted, probe, touched, createDefault>>

\* a not-found item is fetched again instead of ending Read
ReadItemRetriesNotFound(i) ==
  /\ pc[i] = "r_item"
  /\ LET rf == splitRepoFilePath(d[i].id)
         r == GetItem(rf[1], rf[2], TrimPrefix(d[i].branch, RefsHeads), FALSE) IN
     /\ Called(i, "GetItem")
     /\ IF r.err # NoErr /\ Len(calls[i]) < 6
        THEN UNCHANGED <<pc, result, d, commitId>>
        ELSE IF r.err # NoErr
        THEN /\ Done(i, r.err)
             /\ d' = Set(d, i, [d[i] EXCEPT !.id = <<>>])
             /\ UNCHANGED commitId
        ELSE /\ d' = Set(d, i, [d[i] EXCEPT !.content = r.item.content,
                                            !.repository_id = rf[1],
                                            !.file = rf[2]])
             /\ commitId' = Set(commitId, i, r.item.commit)
             /\ pc' = Set(pc, i, "r_commit")
             /\ UNCHANGED result
  /\ UNCHANGED <<remoteVars, faults, foreign, declared, op, changeType, objectID,
                 attempts, state, pushLog, nops, tainted, probe, touched, createDefault>>

\* lines 194-214
ReadItem(i) ==
  /\ pc[i] = "r_item"
  /\ \E fault \in Faulty :
       LET rf == splitRepoFilePath(d[i].id)
           r == GetItem(rf[1], rf[2], TrimPrefix(d[i].branch, RefsHeads), fault) IN
       /\ Spend(fault)
       /\ Called(i, "GetItem")
       /\ IF r.err # NoErr
          THEN /\ Done(i, r.err)
               /\ d' = IF ResponseWasNotFound(r.err)
                       THEN Set(d, i, [d[i] EXCEPT !.id = <<>>])
                       ELSE d
               /\ UNCHANGED commitId
          ELSE /\ d' = Set(d, i, [d[i] EXCEPT !.content = r.item.content,
                                              !.repository_id = rf[1],
                                              !.file = rf[2]])
               /\ commitId' = Set(commitId, i, r.item.commit)
               /\ pc' = Set(pc, i, "r_commit")
               /\ UNCHANGED result
  /\ UNCHANGED <<remoteVars, foreign, declared, op, changeType, objectID,
                 attempts, state, pushLog, nops, tainted, probe, touched, createDefault>>

\* lines 216-226
ReadCommit(i) ==
  /\ pc[i] = "r_commit"
  /\ \E fault \in Faulty :
       LET r == GetCommit(splitRepoFilePath(d[i].id)[1], commitId[i], fault) IN
       /\ Spend(fault)
       /\ Called(i, "GetCommit")
       /\ IF r.err # NoErr
          THEN Done(i, r.err) /\ UNCHANGED d
          ELSE /\ d' = Set(d, i, [d[i] EXCEPT !.comment = r.comment])
               /\ Done(i, NoErr)
  /\ UNCHANGED <<remoteVars, foreign, declared, op, changeType, objectID, commitId,
                 attempts, state, pushLog, nops, tainted, probe, touched, createDefault>>

\* ------------------------------------------------------------- Update
\* the engine calls Update on a resource that exists and is not tainted by a
\* failed Create; the comment is the configured one, else the one in state
StartUpdate(i, content) ==
  /\ d[i].id # <<>>
  /\ ~tainted[i]
  /\ Begin(i, "Update", "u_branch")
  /\ d' = Set(d, i, [d[i] EXCEPT !.content = content,
                       !.comment = IF declared[i].comment # <<>>
                                   THEN declared[i].comment ELSE @])
  /\ declared' = Set(declared, i, [declared[i] EXCEPT !.content = content])
  /\ UNCHANGED <<changeType, createDefault>>

\* lines 238-240
UpdateCheckBranch(i) ==
  /\ pc[i] = "u_branch"
  /\ \E fault \in Faulty :
       LET err == checkRepositoryBranchExists(d[i].repository_id, d[i].branch, fault) IN
       /\ Spend(fault)
       /\ Called(i, "GetBranch")
       /\ IF err # NoErr THEN Done(i, err)
          ELSE pc' = Set(pc, i, "u_tip") /\ UNCHANGED result
  /\ UNCHANGED <<remoteVars, foreign, d, declared, op, changeType, objectID, commitId,
                 attempts, state, pushLog, nops, tainted, probe, touched, createDefault>>

\* lines 242-245
UpdateTip(i) ==
  /\ pc[i] = "u_tip"
  /\ \E fault \in Faulty :
       LET r == getLastCommitId(d[i].repository_id, d[i].branch, fault) IN
       /\ Spend(fault)
       /\ Called(i, "GetCommits")
       /\ IF r.err # NoErr
          THEN Done(i, r.err) /\ UNCHANGED objectID
          ELSE /\ objectID' = Set(objectID, i, r.id)
               /\ pc' = Set(pc, i, "u_push")
               /\ UNCHANGED result
  /\ UNCHANGED <<remoteVars, foreign, d, declared, op, changeType, commitId,
                 attempts, state, pushLog, nops, tainted, probe, touched, createDefault>>

\* lines 247-268: one push, whose error is returned as it is; the push id is
\* not looked at.  Dereferencing a nil comment at line 258 panics
UpdatePush(i) ==
  /\ pc[i] = "u_push"
  /\ IF d[i].comment = <<>>
     THEN /\ Done(i, Err("Panic", <<>>))
          /\ UNCHANGED <<remoteVars, faults, calls, pushLog>>
     ELSE \E m \in Misbehaviours :
       LET args == UpdateArgs(d[i], objectID[i])
           outcome == PushOutcome(args, m)
           err == PushErr(outcome) IN
       /\ faults' = IF outcome \in {"error", "invalidId"} THEN faults + 1 ELSE faults
       /\ Called(i, "CreatePush")
       /\ pushLog' = Set(pushLog, i, Append(pushLog[i],
                         [args |-> args, outcome |-> outcome, pushId |-> PushIdOf(outcome)]))
       /\ RemoteAfterPush(args, outcome)
       /\ IF err # NoErr THEN Done(i, err)
          ELSE pc' = Set(pc, i, "r_branch") /\ UNCHANGED result
  /\ UNCHANGED <<foreign, d, declared, op, changeType, objectID, commitId,
                 attempts, state, nops, tainted, probe, touched, createDefault>>

\* ------------------------------------------------------------- Delete
\* lines 271-284: no branch check, straight into waitForFilePush
StartDelete(i) ==
  /\ d[i].id # <<>>
  /\ Begin(i, "Delete", "w_tip")
  /\ changeType' = Set(changeType, i, TypeDelete)
  /\ UNCHANGED <<d, declared, createDefault>>

\* ------------------------------------------------------------- Import
\* lines 24-47, on a fresh ResourceData that holds the identifier, followed
\* on success by the engine's Read
Import(i, id) ==
  /\ d[i].id = <<>>
  /\ pc[i] = "idle"
  /\ nops[i] < MaxOps
  /\ \E fault \in Faulty :
       LET p == ImporterParse(id)
           err == IF p.err # NoErr THEN p.err
                  ELSE checkRepositoryFileExists(p.repo, p.file, p.branch, fault)
           called == p.err = NoErr IN
       /\ faults' = IF called /\ fault THEN faults + 1 ELSE faults
       /\ calls' = Set(calls, i, IF called THEN <<"GetItem">> ELSE <<>>)
       /\ IF err # NoErr
          THEN /\ pc' = Set(pc, i, "done")
               /\ result' = Set(result, i, err)
               /\ d' = Set(d, i, NoData)
          ELSE /\ pc' = Set(pc, i, "r_branch")
               /\ result' = Set(result, i, NoErr)
               /\ d' = Set(d, i, [NoData EXCEPT !.id = MakeId(p.repo, p.file),
                                                !.branch = p.branch,
                                                !.overwrite_on_create = FALSE])
  /\ nops' = Set(nops, i, nops[i] + 1)
  /\ op' = Set(op, i, "Import")
  /\ declared' = Set(declared, i, [NoConfig EXCEPT !.id = id,
                                   !.repository_id = ImporterParse(id).repo,
                                   !.file = ImporterParse(id).file,
                                   !.branch = ImporterParse(id).branch])
  /\ objectID' = Set(objectID, i, 0)
  /\ commitId' = Set(commitId, i, 0)
  /\ attempts' = Set(attempts, i, 0)
  /\ state' = Set(state, i, "none")
  /\ pushLog' = Set(pushLog, i, <<>>)
  /\ probe' = Set(probe, i, NoProbe)
  /\ touched' = Set(touched, i, FALSE)
  /\ createDefault' = Set(createDefault, i, <<>>)
  /\ UNCHANGED <<remoteVars, foreign, changeType, tainted>>

\* ------------------------------------------------------------- engine
\* the engine takes the result: a successful Delete, a failed Import and a
\* Create that failed before SetId leave no resource behind, a Create that
\* failed after SetId leaves a tainted one; the locals of the handler are gone
Return(i) ==
  /\ pc[i] = "done"
  /\ pc' = Set(pc, i, "idle")
  /\ LET gone == \/ op[i] = "Delete" /\ result[i] = NoErr
                 \/ op[i] = "Import" /\ result[i] # NoErr
                 \/ op[i] = "Create" /\ result[i] # NoErr /\ d[i].id = <<>> IN
     /\ d' = IF gone THEN Set(d, i, NoData) ELSE d
     /\ declared' = IF gone THEN Set(declared, i, NoConfig) ELSE declared
     /\ createDefault' = IF gone THEN Set(createDefault, i, <<>>) ELSE createDefault
  /\ tainted' = Set(tainted, i,
                    IF op[i] = "Create" THEN result[i] # NoErr /\ d[i].id # <<>>
                    ELSE IF op[i] = "Delete" /\ result[i] = NoErr THEN FALSE
                    ELSE tainted[i])
  /\ op' = Set(op, i, "none")
  /\ result' = Set(result, i, NoErr)
  /\ objectID' = Set(objectID, i, 0)
  /\ commitId' = Set(commitId, i, 0)
  /\ attempts' = Set(attempts, i, 0)
  /\ state' = Set(state, i, "none")
  /\ pushLog' = Set(pushLog, i, <<>>)
  /\ calls' = Set(calls, i, <<>>)
  /\ probe' = Set(probe, i, NoProbe)
  /\ touched' = Set(touched, i, FALSE)
  /\ changeType' = Set(changeType, i, TypeAdd)
  /\ UNCHANGED <<remoteVars, faults, foreign, nops>>

\* ------------------------------------------------------- other clients
\* another client pushes one commit onto branch b: it writes path p (add or
\* edit, as the tree needs) or deletes the file at PathF.  The handlers hold
\* no lock and the service takes a push at any time: between the calls of an
\* operation, after its last call, and while no operation runs
ForeignPush(b, p, delete) ==
  /\ foreign < MaxForeign
  /\ delete => p = PathF /\ files[b][p].exists
  /\ foreign' = foreign + 1
  /\ LET id == Len(commits) + 1
         c == [changeType |-> IF delete THEN TypeDelete
                              ELSE IF files[b][p].exists THEN TypeEdit ELSE TypeAdd,
               path |-> p, hasContent |-> ~delete, content |-> ForeignContent] IN
     /\ commits' = Append(commits, ForeignComment)
     /\ tip' = [tip EXCEPT ![b] = id]
     /\ files' = [files EXCEPT ![b] = ApplyChange(files[b], c, id)]
  /\ touched' = [i \in Inst |->
                   touched[i] \/ (/\ pc[i] \notin {"idle", "off"}
                                  /\ TrimPrefix(d[i].branch, RefsHeads) = b
                                  /\ d[i].file = p)]
  /\ UNCHANGED <<faults, d, declared, op, pc, result, changeType, objectID,
                 commitId, attempts, state, pushLog, calls, nops, tainted, probe, createDefault>>

\* ------------------------------------------------------- specification
InitialContent == "old"

\* the repository at the start: two branches with one commit each; the file
\* at PathF is on exactly one of them, the file at PathBC on the default one

InitRemote ==
  /\ \E holder \in ExistingBranches :
       files = [b \in ExistingBranches |-> [p \in Paths |->
                 IF \/ p = PathF /\ b = holder
                    \/ p = PathBC /\ b = Master
                 THEN [exists |-> TRUE, content |-> InitialContent,
                       commit |-> IF b = Master THEN 1 ELSE 2]
                 ELSE NoFile]]
  /\ tip = [b \in ExistingBranches |-> IF b = Master THEN 1 ELSE 2]
  /\ commits = <<InitialComment, InitialComment>>
  /\ faults = 0
  /\ foreign = 0

InitLocal(running) ==
  /\ d = [i \in Inst |-> NoData]
  /\ declared = [i \in Inst |-> NoConfig]
  /\ op = [i \in Inst |-> "none"]
  /\ pc = [i \in Inst |-> IF i \in running THEN "idle" ELSE "off"]
  /\ result = [i \in Inst |-> NoErr]
  /\ changeType = [i \in Inst |-> TypeAdd]
  /\ objectID = [i \in Inst |-> 0]
  /\ commitId = [i \in Inst |-> 0]
  /\ attempts = [i \in Inst |-> 0]
  /\ state = [i \in Inst |-> "none"]
  /\ pushLog = [i \in Inst |-> <<>>]
  /\ calls = [i \in Inst |-> <<>>]
  /\ nops = [i \in Inst |-> 0]
  /\ tainted = [i \in Inst |-> FALSE]
  /\ probe = [i \in Inst |-> NoProbe]
  /\ touched = [i \in Inst |-> FALSE]
  /\ createDefault = [i \in Inst |-> <<>>]

\* one resource instance, other clients, a remote that may fail
Init == InitRemote /\ InitLocal({1})

Next ==
  \/ \E i \in Inst, file \in DeclaredFiles, branch \in DeclaredBranches,
        content \in DeclaredContents, comment \in DeclaredComments,
        overwrite \in BOOLEAN :
          StartCreate(i, file, branch, content, comment, overwrite)
  \/ \E i \in Inst : CreateCheckBranch(i)
  \/ \E i \in Inst : CreateProbe(i)
  \/ \E i \in Inst : WaitTip(i)
  \/ \E i \in Inst : WaitPush(i)
  \/ \E i \in Inst : StartRead(i)
  \/ \E i \in Inst : ReadCheckBranch(i)
  \/ \E i \in Inst : ReadItem(i)
  \/ \E i \in Inst : ReadCommit(i)
  \/ \E i \in Inst, content \in UpdatedContents : StartUpdate(i, content)
  \/ \E i \in Inst : UpdateCheckBranch(i)
  \/ \E i \in Inst : UpdateTip(i)
  \/ \E i \in Inst : UpdatePush(i)
  \/ \E i \in Inst : StartDelete(i)
  \/ \E i \in Inst, id \in ImportIds : Import(i, id)
  \/ \E i \in Inst : Return(i)
  \/ \E b \in ExistingBranches, p \in Paths, delete \in BOOLEAN : ForeignPush(b, p, delete)

Spec == Init /\ [][Next]_vars

\* --------------------------------------- two instances, one repository
\* what the two resources of one configuration declare: distinct files with
\* the same content (TestAccGitRepoFile_CreateMoreThanOneFile)
FileOf(i) == IF i = 1 THEN PathF ELSE PathBC
ContentOf(i) == "bar"

\* a repository initialised "Clean": both branches, neither file
InitRemoteClean ==
  /\ files = [b \in ExistingBranches |-> [p \in Paths |-> NoFile]]
  /\ tip = [b \in ExistingBranches |-> IF b = Master THEN 1 ELSE 2]
  /\ commits = <<InitialComment, InitialComment>>
  /\ faults = MaxFaults
  /\ foreign = MaxForeign

\* both instances run, no other client writes and the remote does not fail
InitTwo == InitRemoteClean /\ InitLocal(Inst)

\* one remote call of the handler instance i is in
Step(i) ==
  \/ CreateCheckBranch(i)
  \/ CreateProbe(i)
  \/ WaitTip(i)
  \/ WaitPush(i)
  \/ ReadCheckBranch(i)
  \/ ReadItem(i)
  \/ ReadCommit(i)

\* the engine applies the configuration (Create), or destroys it (Delete),
\* for both resources in parallel
NextTwo ==
  \/ \E i \in Inst :
       StartCreate(i, FileOf(i), DefaultBranchRef, ContentOf(i), <<>>, FALSE)
  \/ \E i \in Inst : StartDelete(i)
  \/ \E i \in Inst : Step(i)
  \/ \E i \in Inst : Return(i)

\* a handler that was started runs on: every remote call returns, and
\* WaitForState gives up at its timeout
SpecTwo == InitTwo /\ [][NextTwo]_vars /\ \A i \in Inst : WF_vars(Step(i))

\* ==================================================================
\* Properties
\* ==================================================================
Last(s) == s[Len(s)]

\* how often character c occurs in s
Count(s, c) == Cardinality({k \in 1..Len(s) : s[k] = c})

\* the position of the first c in s, Len(s) + 1 when there is none
FirstAt(s, c) ==
  IF Count(s, c) = 0 THEN Len(s) + 1
  ELSE CHOOSE k \in 1..Len(s) : s[k] = c /\ \A j \in 1..(k - 1) : s[j] # c

\* the text before the first c (all of s when there is none)
Before(s, c) == SubSeq(s, 1, FirstAt(s, c) - 1)

\* the text after the first c (empty when there is none)
After(s, c) == SubSeq(s, FirstAt(s, c) + 1, Len(s))

\* the change kinds of the pushes instance i has submitted
Kind(i, k) == pushLog[i][k].args.changes[1].changeType

\* an earlier push of the running operation was rejected as stale and the
\* last one was accepted with a positive push id
ConflictThenAccepted(i) ==
  /\ \E j \in 1..(Len(pushLog[i]) - 1) : pushLog[i][j].outcome = "conflict"
  /\ pushLog[i] # <<>>
  /\ Last(pushLog[i]).outcome = "accepted"
  /\ Last(pushLog[i]).pushId > 0

\* C1: in Create and Delete, which run waitForFilePush, a push rejected as
\* stale is retried and never returned: once a later push is accepted with
\* a positive push id the state is Synched, waitForFilePush has reported no
\* error, Delete has returned nil and Create has gone on to Read.
C1_ConflictRetriedThenSynched ==
  \A i \in Inst :
    op[i] \in {"Create", "Delete"} =>
      /\ result[i].kind # "Conflict"
      /\ ConflictThenAccepted(i) =>
           /\ state[i] = "Synched"
           /\ result[i].repo = <<>>
           /\ op[i] = "Delete" => pc[i] = "done" /\ result[i] = NoErr
           /\ op[i] = "Create" => pc[i] \in {"r_branch", "r_item", "r_commit", "done"}

C1_Witness ==
  \E i \in Inst :
    /\ op[i] \in {"Create", "Delete"}
    /\ ConflictThenAccepted(i)
    /\ pc[i] = "done"
    /\ result[i] = NoErr

\* C2: a Create with overwrite_on_create = false whose file exists on the
\* declared branch when it is probed returns an error and submits no push.
C2_ExistingFileRefusedWithoutPush ==
  \A i \in Inst :
    (op[i] = "Create" /\ ~d[i].overwrite_on_create /\ probe[i].done /\ probe[i].onBranch)
      => /\ pc[i] = "done"
         /\ result[i] # NoErr
         /\ pushLog[i] = <<>>

\* C3: a Create against a branch that does not exist ends at the branch
\* check with the error that names the (bare) branch, unless the lookup
\* itself failed, and submits no push.
C3_MissingBranchNamedNoPush ==
  \A i \in Inst :
    (/\ op[i] = "Create"
     /\ pc[i] # "c_branch"
     /\ TrimPrefix(declared[i].branch, RefsHeads) \notin ExistingBranches)
      => /\ pc[i] = "done"
         /\ pushLog[i] = <<>>
         /\ \/ result[i] = Err("BranchNotExist", TrimPrefix(declared[i].branch, RefsHeads))
            \/ result[i] = TransportErr

C3_Witness ==
  \E i \in Inst :
    /\ op[i] = "Create"
    /\ declared[i].branch = RefsHeads \o Gone
    /\ pc[i] = "done"
    /\ result[i] = Err("BranchNotExist", Gone)
    /\ pushLog[i] = <<>>

\* a push that failed with an error that is not the stale conflict
Failed(entry) == entry.outcome \in {"error", "rejected"}

\* C4 as claimed: when a push of Create, Update or Delete fails with an
\* error other than the stale conflict, the operation returns an error that
\* contains it and has submitted exactly one push.
C4_FailureTerminalExactlyOnePush ==
  \A i \in Inst :
    (op[i] \in {"Create", "Update", "Delete"} /\ pushLog[i] # <<>> /\ Failed(Last(pushLog[i])))
      => /\ pc[i] = "done"
         /\ Contains(result[i], PushErr(Last(pushLog[i]).outcome))
         /\ Len(pushLog[i]) = 1

\* C4 as amended: the failing push is the last push of the operation and
\* its error is returned; it is the only push of an Update, and in Create
\* and Delete every push before it ended in Waiting (a stale conflict, or a
\* push id that is not positive) and was retried.
C4_FailureTerminalLastPush ==
  \A i \in Inst :
    op[i] \in {"Create", "Update", "Delete"} =>
      /\ \A k \in 1..Len(pushLog[i]) :
           Failed(pushLog[i][k]) =>
             /\ k = Len(pushLog[i])
             /\ pc[i] = "done"
             /\ Contains(result[i], PushErr(pushLog[i][k].outcome))
             /\ \A j \in 1..(k - 1) : pushLog[i][j].outcome \in {"conflict", "invalidId"}
      /\ op[i] = "Update" => Len(pushLog[i]) <= 1

C4_Witness ==
  \E i \in Inst :
    /\ op[i] \in {"Create", "Delete"}
    /\ pc[i] = "done"
    /\ Len(pushLog[i]) = 2
    /\ pushLog[i][1].outcome = "conflict"
    /\ Failed(pushLog[i][2])
    /\ Contains(result[i], PushErr(pushLog[i][2].outcome))

\* C5: when Create (which ends with Read) returns nil and no other client
\* wrote the managed file meanwhile, the resource holds the declared content
\* and a non-empty comment, and the file on the declared branch holds the
\* declared content.
C5_CreateThenReadSameContent ==
  \A i \in Inst :
    (op[i] = "Create" /\ pc[i] = "done" /\ result[i] = NoErr /\ ~touched[i])
      => /\ d[i].content = declared[i].content
         /\ d[i].comment # <<>>
         /\ OnDeclaredBranch(i)
         /\ files[TrimPrefix(declared[i].branch, RefsHeads)][declared[i].file].content
              = declared[i].content

C5_Witness ==
  \E i \in Inst :
    /\ op[i] = "Create" /\ pc[i] = "done" /\ result[i] = NoErr /\ ~touched[i]
    /\ d[i].content \in DeclaredContents
    /\ d[i].id = MakeId(Repo, PathF)

\* C6: every push of a Create with overwrite_on_create = true is an Edit
\* when the file was on the declared branch at the probe and an Add when it
\* was not.
C6_OverwriteKindFollowsExistence ==
  \A i \in Inst :
    (op[i] = "Create" /\ d[i].overwrite_on_create /\ probe[i].done)
      => \A k \in 1..Len(pushLog[i]) :
           Kind(i, k) = IF probe[i].onBranch THEN TypeEdit ELSE TypeAdd

\* C7: Update leaves repository_id, file and branch as declared, and when
\* Create committed with a generated message and no comment is declared,
\* no commit made by Update carries that message.
C7_UpdateKeepsKeysNewMessage ==
  \A i \in Inst :
    op[i] = "Update" =>
      /\ d[i].repository_id = declared[i].repository_id
      /\ d[i].file = declared[i].file
      /\ d[i].branch = declared[i].branch
      /\ (createDefault[i] # <<>> /\ declared[i].comment = <<>>)
           => \A k \in 1..Len(pushLog[i]) :
                PushAccepted(pushLog[i][k].outcome)
                  => pushLog[i][k].args.comment # createDefault[i]

\* C8: when Delete has returned nil and no other client wrote the managed
\* file meanwhile, the file is absent on the declared branch: the item fetch
\* Read makes reports not-found.
C8_DeletedFileAbsent ==
  \A i \in Inst :
    (op[i] = "Delete" /\ pc[i] = "done" /\ result[i] = NoErr /\ ~touched[i])
      => /\ ~OnDeclaredBranch(i)
         /\ ResponseWasNotFound(
              GetItem(declared[i].repository_id, declared[i].file,
                      TrimPrefix(declared[i].branch, RefsHeads), FALSE).err)

C8_Witness ==
  \E i \in Inst :
    /\ op[i] = "Delete" /\ pc[i] = "done" /\ result[i] = NoErr /\ ~touched[i]
    /\ Last(pushLog[i]).outcome = "accepted"
    /\ Kind(i, Len(pushLog[i])) = TypeDelete

\* C9: the importer rejects an identifier with more than one ":" without a
\* remote call and without an identity; otherwise the identity is the text
\* before the ":" split at its first "/" (repository, then path), the branch
\* is the text after the ":" or refs/heads/master when there is no ":", and
\* overwrite_on_create is false.
C9_ImportIdentifierParsed ==
  \A i \in Inst :
    op[i] = "Import" =>
      LET id == declared[i].id
          head == Before(id, ":") IN
      /\ Count(id, ":") > 1 =>
           /\ pc[i] = "done"
           /\ result[i] = Err("InvalidID", <<>>)
           /\ d[i] = NoData
           /\ calls[i] = <<>>
      /\ (Count(id, ":") <= 1 /\ pc[i] = "r_branch") =>
           /\ d[i].id = Before(head, "/") \o <<"/">> \o After(head, "/")
           /\ d[i].branch = IF Count(id, ":") = 1 THEN After(id, ":") ELSE DefaultBranchRef
           /\ ~d[i].overwrite_on_create
      /\ pc[i] = "r_commit" =>
           /\ d[i].repository_id = Before(head, "/")
           /\ d[i].file = After(head, "/")

C9_Witness ==
  \E i \in Inst :
    /\ op[i] = "Import"
    /\ declared[i].id = <<"r", "/", "b", "/", "c">>
    /\ pc[i] = "r_commit"
    /\ d[i].repository_id = <<"r">>
    /\ d[i].file = <<"b", "/", "c">>
    /\ d[i].branch = DefaultBranchRef

\* C10: Update never returns the stale conflict: after a push rejected as
\* stale it fetches the tip again.
C10_UpdateRetriesConflict ==
  \A i \in Inst :
    op[i] = "Update" =>
      /\ result[i].kind # "Conflict"
      /\ (pushLog[i] # <<>> /\ Last(pushLog[i]).outcome = "conflict")
           => pc[i] = "u_tip"

\* every push the running operation has submitted was rejected as stale
AllConflicts(i) ==
  /\ pushLog[i] # <<>>
  /\ \A k \in 1..Len(pushLog[i]) : pushLog[i][k].outcome = "conflict"

\* the reconciler of instance i is running
InReconciler(i) == op[i] \in {"Create", "Delete"} /\ pc[i] \in {"w_tip", "w_push"}

\* C11, the part about states: an operation whose pushes were all rejected
\* as stale ends with an error that names the repository, and an operation
\* reports Synched or nil only after a push was accepted with a positive id
ReconcilerOutcome ==
  \A i \in Inst :
    op[i] \in {"Create", "Delete"} =>
      /\ (pc[i] = "done" /\ AllConflicts(i))
           => /\ result[i] # NoErr
              /\ result[i].kind # "Conflict"
              /\ result[i].repo = d[i].repository_id
      /\ (\/ state[i] = "Synched"
          \/ pc[i] \in {"r_branch", "r_item", "r_commit"}
          \/ pc[i] = "done" /\ result[i] = NoErr)
           => /\ pushLog[i] # <<>>
              /\ Last(pushLog[i]).outcome = "accepted"
              /\ Last(pushLog[i]).pushId > 0

\* C11: every run of waitForFilePush ends (in Create by going on to Read or
\* returning, in Delete by returning); when every push was rejected as stale
\* until the timeout the operation returns an error naming the repository;
\* success is never reported without an accepted push.
C11_ReconcilerTerminates ==
  /\ []ReconcilerOutcome
  /\ \A i \in Inst : InReconciler(i) ~> ~InReconciler(i)

C11_Witness ==
  \E i \in Inst :
    /\ op[i] \in {"Create", "Delete"}
    /\ pc[i] = "done"
    /\ Len(pushLog[i]) = MaxAttempts
    /\ AllConflicts(i)
    /\ result[i] = WrapErr(d[i].repository_id, Err("Timeout", <<>>))

\* instance i is at a remote call of Read (its own, or the Read that Create,
\* Update and Import end with) and the step about to be taken makes it
ReadCalls(i) == pc[i] \in {"r_branch", "r_item", "r_commit"} /\ pc'[i] # pc[i]

\* the error that call returns in this step
ReadCallErr(i) ==
  LET rf == splitRepoFilePath(d[i].id)
      b == TrimPrefix(d[i].branch, RefsHeads) IN
  IF faults' # faults THEN TransportErr
  ELSE IF pc[i] = "r_branch" THEN GetBranch(rf[1], b, FALSE)
  ELSE IF pc[i] = "r_item" THEN GetItem(rf[1], rf[2], b, FALSE).err
  ELSE GetCommit(rf[1], commitId[i], FALSE).err

\* C12: whenever the branch lookup, the item fetch or the commit fetch of
\* Read fails, Read returns at once with an error that contains the failure;
\* it returns nil only after the commit fetch succeeded.
C12_ReadReturnsEveryFailure ==
  [][\A i \in Inst :
       ReadCalls(i) =>
         /\ ReadCallErr(i) # NoErr
              => pc'[i] = "done" /\ Contains(result'[i], ReadCallErr(i))
         /\ ReadCallErr(i) = NoErr
              => /\ result'[i] = NoErr
                 /\ pc'[i] = "done" <=> pc[i] = "r_commit"]_vars

C12_Witness ==
  \E i \in Inst :
    /\ op[i] = "Read"
    /\ pc[i] = "done"
    /\ calls[i] = <<"GetBranch", "GetItem", "GetCommit">>
    /\ result[i] = TransportErr

\* instance i runs Create as its first operation
Creating(i) == op[i] = "Create" /\ nops[i] = 1

\* the file instance i declares is on the declared branch with its content
Holds(i) ==
  /\ OnDeclaredBranch(i)
  /\ files[TrimPrefix(d[i].branch, RefsHeads)][d[i].file].content = declared[i].content

\* some instance other than i has gone on to a further operation
OtherMovedOn(i) == \E j \in Inst \ {i} : nops[j] > 1

\* C13, the part about states: a Create that ends while the other instance
\* does nothing but its own Create returns nil and its file is on the branch
\* with the declared content; when both have ended, both files are.
BothFilesKept ==
  \A i \in Inst :
    (Creating(i) /\ pc[i] = "done" /\ ~OtherMovedOn(i))
      => /\ result[i] = NoErr
         /\ Holds(i)
         /\ \A j \in Inst : (Creating(j) /\ pc[j] = "done") => Holds(j)

\* C13: two instances that create distinct files on one branch both end
\* with success (unless the other instance meanwhile went on to a further
\* operation), and then both files are on the branch with their declared
\* content.
C13_ConcurrentCreatesBothSucceed ==
  /\ []BothFilesKept
  /\ \A i \in Inst :
       (Creating(i) /\ pc[i] # "done")
         ~> (pc[i] = "done" /\ (result[i] = NoErr \/ OtherMovedOn(i)))

C13_Witness ==
  /\ \A i \in Inst : Creating(i) /\ pc[i] = "done" /\ result[i] = NoErr /\ Holds(i)
  /\ d[1].branch = d[2].branch /\ d[1].file # d[2].file
  /\ \E i \in Inst : pushLog[i][1].outcome = "conflict"

\* C14: a step of Read clears the identity exactly when it is the item fetch
\* and the fetch answers not-found, and Read then still returns that error;
\* every other step of Read, failed or not, leaves the identity as it was.
C14_IdentityClearedOnlyOnNotFound ==
  [][\A i \in Inst :
       ReadCalls(i) =>
         IF pc[i] = "r_item" /\ ReadCallErr(i).kind = "NotFound"
         THEN /\ d'[i].id = <<>>
              /\ pc'[i] = "done"
              /\ result'[i] = ReadCallErr(i)
         ELSE d'[i].id = d[i].id /\ d[i].id # <<>>]_vars

C14_Witness ==
  \E i \in Inst :
    /\ op[i] = "Read"
    /\ pc[i] = "done"
    /\ calls[i] = <<"GetBranch", "GetItem">>
    /\ result[i].kind = "NotFound"
    /\ d[i].id = <<>>

\* C15: in Create, Update, Delete and Read the first remote call is the
\* branch lookup, and when it fails it stays the only call of the operation.
C15_BranchCheckFirst ==
  \A i \in Inst :
    (op[i] \in {"Create", "Update", "Delete", "Read"} /\ calls[i] # <<>>)
      => /\ calls[i][1] = "GetBranch"
         /\ (pc[i] = "done" /\ result[i].kind = "BranchNotExist") => Len(calls[i]) = 1

\* fmt.Sprintf("Delete %s", file), the default the claim names for a Delete
DeleteComment(file) == <<"D","e","l","e","t","e"," ">> \o file

\* C16: every submitted push carries the declared comment when one is
\* declared, and otherwise "Add <path>", "Update <path>" or "Delete <path>"
\* according to the kind of its change.
C16_MessageDeclaredOrKindDefault ==
  \A i \in Inst :
    \A k \in 1..Len(pushLog[i]) :
      pushLog[i][k].args.comment =
        IF declared[i].comment # <<>> THEN declared[i].comment
        ELSE IF Kind(i, k) = TypeAdd THEN AddComment(declared[i].file)
        ELSE IF Kind(i, k) = TypeEdit THEN UpdateComment(declared[i].file)
        ELSE DeleteComment(declared[i].file)

\* C17: each attempt of the reconciler fetches the branch tip and pushes
\* with exactly that id as the expected old commit; when the fetch fails the
\* run ends with an error and that attempt submits no push.
C17_PushUsesTipOfSameAttempt ==
  [][\A i \in Inst :
       /\ (pc[i] = "w_tip" /\ pc'[i] # "w_tip") =>
            LET r == getLastCommitId(d[i].repository_id, d[i].branch, FALSE) IN
            IF faults' # faults \/ r.err # NoErr
            THEN /\ pc'[i] = "done"
                 /\ result'[i] # NoErr
                 /\ pushLog'[i] = pushLog[i]
            ELSE /\ pc'[i] = "w_push"
                 /\ objectID'[i] = tip[TrimPrefix(d[i].branch, RefsHeads)]
                 /\ pushLog'[i] = pushLog[i]
       /\ (pc[i] = "w_push" /\ pc'[i] # "w_push") =>
            /\ Len(pushLog'[i]) = Len(pushLog[i]) + 1
            /\ Last(pushLog'[i]).args.oldObjectId = objectID[i]
            /\ Last(calls[i]) = "GetCommits"]_vars

C17_Witness ==
  \E i \in Inst :
    /\ op[i] \in {"Create", "Delete"}
    /\ Len(pushLog[i]) = 2
    /\ pushLog[i][1].outcome = "conflict"
    /\ pushLog[i][2].outcome = "accepted"
    /\ pushLog[i][2].args.oldObjectId # pushLog[i][1].args.oldObjectId

\* C18: while Create runs, the identity is unset until the reconciler has
\* reached Synched with an accepted push, and then it is repository_id, "/",
\* file; a Create that failed at the branch check, the probe, the refusal or
\* the push returns with the identity unset.
C18_IdentityOnlyAfterAcceptedPush ==
  \A i \in Inst :
    op[i] = "Create" =>
      /\ d[i].id # <<>> =>
           /\ state[i] = "Synched"
           /\ Last(pushLog[i]).outcome = "accepted"
           /\ d[i].id = declared[i].repository_id \o <<"/">> \o declared[i].file
      /\ state[i] # "Synched" => d[i].id = <<>>
      /\ (state[i] = "Synched" /\ pc[i] = "r_branch") => d[i].id # <<>>

C18_Witness ==
  \E i \in Inst :
    /\ op[i] = "Create"
    /\ pc[i] = "r_branch"
    /\ Last(pushLog[i]).outcome = "accepted"
    /\ d[i].id = Repo \o <<"/">> \o PathF

\* the pushes of the running operation that the remote accepted
AcceptedPushes(i) == {k \in 1..Len(pushLog[i]) : PushAccepted(pushLog[i][k].outcome)}

\* C19: an invocation of Create, Update or Delete has at most one accepted
\* push, an accepted push is its last push, and when the mutating step has
\* reported success there is exactly one.
C19_AtMostOneAcceptedPush ==
  \A i \in Inst :
    op[i] \in {"Create", "Update", "Delete"} =>
      /\ Cardinality(AcceptedPushes(i)) <= 1
      /\ \A k \in AcceptedPushes(i) : k = Len(pushLog[i])
      /\ (\/ state[i] = "Synched"
          \/ pc[i] \in {"r_branch", "r_item", "r_commit"}
          \/ pc[i] = "done" /\ result[i] = NoErr)
           => Cardinality(AcceptedPushes(i)) = 1

\* C20: every push an operation submits has one change, for the declared
\* path, in a ref update of the declared branch of the declared repository;
\* the step that submits it leaves every other path and every other branch
\* as it was, whatever other clients wrote there before.
C20_OneChangeDeclaredPathOnly ==
  [][\A i \in Inst :
       Len(pushLog'[i]) = Len(pushLog[i]) + 1 =>
         LET args == Last(pushLog'[i]).args
             mine == TrimPrefix(declared[i].branch, RefsHeads) IN
         /\ Len(args.changes) = 1
         /\ args.changes[1].path = declared[i].file
         /\ args.name = declared[i].branch
         /\ args.repo = declared[i].repository_id
         /\ \A b \in ExistingBranches :
              /\ b # mine => tip'[b] = tip[b]
              /\ \A p \in Paths :
                   (b # mine \/ p # declared[i].file) => files'[b][p] = files[b][p]]_vars

C20_Witness ==
  \E i \in Inst :
    /\ op[i] \in {"Create", "Delete"}
    /\ Len(pushLog[i]) = 2
    /\ pushLog[i][1].outcome = "conflict"
    /\ pushLog[i][2].outcome = "accepted"
    /\ pushLog[i][2].args.changes[1].path = PathF
    /\ files[TrimPrefix(d[i].branch, RefsHeads)][PathBC].content = ForeignContent

\* C21: every push of a Create with overwrite_on_create = false is an Add,
\* in the first attempt and in every retry; when the file is on the declared
\* branch at the time of the push (another client added it after the probe)
\* the push is not accepted and the file stays as that client wrote it.
C21_CreateNeverReplacesForeignFile ==
  [][\A i \in Inst :
       (/\ op[i] = "Create"
        /\ ~d[i].overwrite_on_create
        /\ Len(pushLog'[i]) = Len(pushLog[i]) + 1)
         => /\ Last(pushLog'[i]).args.changes[1].changeType = TypeAdd
            /\ OnDeclaredBranch(i)
                 => /\ ~PushAccepted(Last(pushLog'[i]).outcome)
                    /\ files' = files]_vars

C21_Witness ==
  \E i \in Inst :
    /\ op[i] = "Create"
    /\ ~d[i].overwrite_on_create
    /\ pc[i] = "done"
    /\ Len(pushLog[i]) = 2
    /\ pushLog[i][1].outcome = "conflict"
    /\ pushLog[i][2].outcome = "rejected"
    /\ files[TrimPrefix(d[i].branch, RefsHeads)][d[i].file].content = ForeignContent

\* the remote calls Read makes, in order
ReadCallsInOrder == <<"GetBranch", "GetItem", "GetCommit">>

\* C22: an invocation of Read makes its calls once each and in order, so at
\* most one item fetch and one commit fetch; a not-found item ends it with
\* that error after the one fetch.  The Read that ends Create, Update and
\* Import adds one item fetch and one commit fetch to theirs.
C22_ReadFetchesOnce ==
  \A i \in Inst :
    /\ op[i] = "Read" =>
         /\ Len(calls[i]) <= 3
         /\ calls[i] = SubSeq(ReadCallsInOrder, 1, Len(calls[i]))
         /\ (pc[i] = "done" /\ result[i].kind = "NotFound") => calls[i] = <<"GetBranch", "GetItem">>
    /\ Count(calls[i], "GetCommit") <= 1
    /\ Count(calls[i], "GetItem") <= IF op[i] \in {"Create", "Import"} THEN 2 ELSE 1

C22_Witness ==
  \E i \in Inst :
    /\ op[i] = "Create"
    /\ state[i] = "Synched"
    /\ pc[i] = "done"
    /\ result[i].kind = "NotFound"
    /\ Count(calls[i], "GetItem") = 2
    /\ Count(calls[i], "GetCommit") = 0

====
